---- MODULE Spec2Model ----
(***************************************************************************)
(* State-machine model of Outage_Analysis.py: URL resolution, scraping,    *)
(* dissolving and the reconciliation of the persisted feature classes.     *)
(*                                                                         *)
(* Encodings.  A Python string is a sequence of one-character strings.     *)
(* Python None in an integer or date field is NoneVal.  A row is the       *)
(* 6-tuple the scrape functions build; Python index k is tuple index k+1.  *)
(* A feature class is a sequence of features (cursor order).               *)
(***************************************************************************)
EXTENDS Integers, Sequences, FiniteSets, TLC

\* ------------------------------------------------------------------ bounds
MaxRuns == 2
MaxFaults == 1

\* --------------------------------------------------------------- constants
DOM == "DOM"
AEP == "AEP"
NoneVal == -1
Sentinel == -9999

\* ----------------------------------------------------------------- strings
Lower(c) ==
  CASE c = "A" -> "a"
    [] c = "B" -> "b"
    [] c = "C" -> "c"
    [] c = "D" -> "d"
    [] c = "E" -> "e"
    [] c = "P" -> "p"
    [] c = "V" -> "v"
    [] OTHER -> c

lower(s) == [i \in DOMAIN s |-> Lower(s[i])]

\* str.replace(character, "")
replace(s, character) == SelectSeq(s, LAMBDA c : c # character)

RECURSIVE StripAll(_, _, _)
StripAll(new_string, characters, i) ==
  IF i > Len(characters) THEN new_string
  ELSE StripAll(replace(new_string, characters[i]), characters, i + 1)

create_prog_key(company, locality) ==
  LET characters == <<"'", " ", ".", "-", "/">>
      new_string == lower(company \o locality)
  IN  StripAll(new_string, characters, 1)

\* '%02d' % n, for 0 <= n <= 99
TwoDigits(n) == <<n \div 10, n % 10>>

\* --------------------------------------------------------- date strings
mods == <<0, 1, 2, 3, 4, 5, 6, 7, 8, 9, 10, 11, 12, 13, 14>>
modifiers == <<"00", "30">>

\* Mutant of str_minute: the bucket starts one minute late (> for >=).
str_minute_late(minute, mod) ==
  IF minute > 45 + mod THEN TwoDigits(45 + mod)
  ELSE IF minute > 30 + mod /\ minute <= 45 + mod THEN TwoDigits(30 + mod)
  ELSE IF minute > 15 + mod /\ minute <= 30 + mod THEN TwoDigits(15 + mod)
  ELSE TwoDigits(0 + mod)

str_minute(minute, mod) ==
  IF minute >= 45 + mod THEN TwoDigits(45 + mod)
  ELSE IF minute >= 30 + mod /\ minute < 45 + mod THEN TwoDigits(30 + mod)
  ELSE IF minute >= 15 + mod /\ minute < 30 + mod THEN TwoDigits(15 + mod)
  ELSE TwoDigits(0 + mod)

\* The year, month, day and hour parts are the same in every string of one
\* call and are left out; a date string is <<str_minute, modifier>>.  The
\* code reads the clock once per mod; the model reads it once per call.
build_date_strings(minute) ==
  [k \in 1..(Len(mods) * Len(modifiers)) |->
     <<str_minute(minute, mods[((k - 1) \div Len(modifiers)) + 1]),
       modifiers[((k - 1) % Len(modifiers)) + 1]>>]

\* The URL template is fixed per provider; the URL is determined by the pair.
build_url(provider, date_string) == <<provider, date_string>>

\* ------------------------------------------------------------- scraping
\* A JSON object is a record; a key lookup raises when the key is not in
\* its DOMAIN.  A response is [fetch, json]: fetch = "ok" when urlopen and
\* json.load succeed; urllib2.Request(None) raises.  A scrape result is
\* [raised, rows].
provider_site_dom ==
  <<"D","o","m","i","n","i","o","n"," ","V","i","r","g","i","n","i","a"," ",
    "P","o","w","e","r">>
provider_site_aep ==
  <<"A","m","e","r","i","c","a","n"," ","E","l","e","c","t","r","i","c"," ",
    "P","o","w","e","r">>

HasKeys(obj, keys) == keys \subseteq DOMAIN obj

RECURSIVE ScrapeAreaLoop(_, _, _, _, _)
ScrapeAreaLoop(areas, j, provider_site, DATE_STRING, rows) ==
  IF j > Len(areas) THEN [raised |-> FALSE, rows |-> rows]
  ELSE LET area == areas[j] IN
       IF ~HasKeys(area, {"area_name", "cust_s", "cust_a"})
         THEN [raised |-> TRUE, rows |-> rows]
       ELSE IF ~HasKeys(area.cust_a, {"val"})
         THEN [raised |-> TRUE, rows |-> rows]
       ELSE LET locality == area.area_name
                loc_cust_served == area.cust_s
                loc_out == area.cust_a.val
                key == create_prog_key(provider_site, locality)
                row == <<locality, provider_site, key, loc_cust_served,
                         loc_out, DATE_STRING>>
            IN ScrapeAreaLoop(areas, j + 1, provider_site, DATE_STRING,
                              Append(rows, row))

RECURSIVE ScrapeRegionLoop(_, _, _, _, _)
ScrapeRegionLoop(regions_json, i, provider_site, DATE_STRING, rows) ==
  IF i > Len(regions_json) THEN [raised |-> FALSE, rows |-> rows]
  ELSE LET region == regions_json[i] IN
       IF ~HasKeys(region, {"area_name", "areas"})
         THEN [raised |-> TRUE, rows |-> rows]
       ELSE LET r == ScrapeAreaLoop(region.areas, 1, provider_site,
                                    DATE_STRING, rows)
            IN IF r.raised THEN r
               ELSE ScrapeRegionLoop(regions_json, i + 1, provider_site,
                                     DATE_STRING, r.rows)

\* json_file["file_data"]["areas"][0]["areas"]
ScrapeRegions(in_url, response, provider_site, DATE_STRING) ==
  IF in_url = <<>> \/ response.fetch # "ok" THEN [raised |-> TRUE, rows |-> <<>>]
  ELSE IF ~HasKeys(response.json, {"file_data"})
    THEN [raised |-> TRUE, rows |-> <<>>]
  ELSE IF ~HasKeys(response.json.file_data, {"areas"})
    THEN [raised |-> TRUE, rows |-> <<>>]
  ELSE IF Len(response.json.file_data.areas) = 0
    THEN [raised |-> TRUE, rows |-> <<>>]
  ELSE IF ~HasKeys(response.json.file_data.areas[1], {"areas"})
    THEN [raised |-> TRUE, rows |-> <<>>]
  ELSE ScrapeRegionLoop(response.json.file_data.areas[1].areas, 1,
                        provider_site, DATE_STRING, <<>>)

scrape_dom_data(in_url, response, DATE_STRING) ==
  ScrapeRegions(in_url, response, provider_site_dom, DATE_STRING)

scrape_aep_data(in_url, response, DATE_STRING) ==
  ScrapeRegions(in_url, response, provider_site_aep, DATE_STRING)

\* The body of the try block for one value of coop_data: the rows gathered
\* when the block ends, normally or by an exception.
RECURSIVE CoopCountyLoop(_, _, _, _, _)
CoopCountyLoop(provider, counties, j, DATE_STRING, rows) ==
  IF j > Len(counties) THEN rows
  ELSE LET county == counties[j] IN
       IF ~HasKeys(county, {"name"}) THEN rows
       ELSE IF ~HasKeys(county, {"outage"}) THEN rows
       ELSE LET locality == county.name
                loc_out == county.outage
                key == create_prog_key(provider, locality)
                served == 0
                row == <<locality, provider, key, served, loc_out,
                         DATE_STRING>>
            IN CoopCountyLoop(provider, counties, j + 1, DATE_STRING,
                              Append(rows, row))

CoopTry(val, DATE_STRING, rows) ==
  IF ~HasKeys(val, {"company"}) THEN rows
  ELSE IF ~HasKeys(val, {"county"}) THEN rows
  ELSE CoopCountyLoop(val.company, val.county, 1, DATE_STRING, rows)

RECURSIVE CoopValLoop(_, _, _, _)
CoopValLoop(vals, i, DATE_STRING, rows) ==
  IF i > Len(vals) THEN rows
  ELSE CoopValLoop(vals, i + 1, DATE_STRING,
                   CoopTry(vals[i], DATE_STRING, rows))

\* response: [fetch, lines, data_ok, coop_ok, coop_data]; lines is the
\* number of lines read, data_ok / coop_ok say whether json.loads accepts
\* the first / second line, coop_data is json_file_coop.values().
scrape_coop_data(response, DATE_STRING) ==
  IF response.fetch # "ok" THEN [raised |-> TRUE, rows |-> <<>>]
  ELSE IF response.lines < 1 \/ ~response.data_ok
    THEN [raised |-> TRUE, rows |-> <<>>]
  ELSE IF response.lines < 2 \/ ~response.coop_ok
    THEN [raised |-> TRUE, rows |-> <<>>]
  ELSE [raised |-> FALSE,
        rows |-> CoopValLoop(response.coop_data, 1, DATE_STRING, <<>>)]

\* ------------------------------------------------------------- dissolve
DissolveKey(row) == replace(lower(row[1]), "'")

\* Mutant of DissolveLoop: the value is assigned, not added.
RECURSIVE DissolveLoopAssigns(_, _, _)
DissolveLoopAssigns(in_list, i, loc_dict) ==
  IF i > Len(in_list) THEN loc_dict
  ELSE LET key == DissolveKey(in_list[i])
       IN DissolveLoopAssigns(in_list, i + 1,
            [loc_dict EXCEPT ![key] = in_list[i][5]])

RECURSIVE DissolveLoop(_, _, _)
DissolveLoop(in_list, i, loc_dict) ==
  IF i > Len(in_list) THEN loc_dict
  ELSE LET key == DissolveKey(in_list[i])
       IN DissolveLoop(in_list, i + 1,
            [loc_dict EXCEPT ![key] = loc_dict[key] + in_list[i][5]])

dissolve_list(in_list) ==
  LET localities == [i \in DOMAIN in_list |-> DissolveKey(in_list[i])]
      loc_unique == {localities[i] : i \in DOMAIN localities}
      loc_dict == [loc \in loc_unique |-> 0]
  IN  DissolveLoop(in_list, 1, loc_dict)

\* ------------------------------------------------------- feature classes
\* Every store operation takes fail_at: 0 when the store answers every
\* call, n >= 1 when the n-th call to the store (CalculateField or the
\* cursor opened for one row / key, in program order) raises before it
\* changes anything.  The result is [raised, fc]: the feature class as the
\* operation leaves it.

\* arcpy.CalculateField_management(fc, field, value)
CalculateField(fc, field, value) ==
  [i \in DOMAIN fc |-> [fc[i] EXCEPT ![field] = value]]

\* Index of the first feature the cursor yields for  key_field = 'key',
\* 0 when the selection is empty.
FirstMatch(fc, key_field, key) ==
  IF \E i \in DOMAIN fc : fc[i][key_field] = key
  THEN CHOOSE i \in DOMAIN fc :
         /\ fc[i][key_field] = key
         /\ \A j \in DOMAIN fc : fc[j][key_field] = key => i <= j
  ELSE 0

copy_field(fc, fail_at) ==
  LET in_field == "Cust_Out_Auto"
      out_field == "Cust_Out_Last_Report"
      nullified == CalculateField(fc, out_field, NoneVal)
      copied == [i \in DOMAIN fc |->
                   [nullified[i] EXCEPT ![out_field] = nullified[i][in_field]]]
  IN  IF fail_at = 1 THEN [raised |-> TRUE, fc |-> fc]
      ELSE IF fail_at = 2 THEN [raised |-> TRUE, fc |-> nullified]
      ELSE [raised |-> FALSE, fc |-> copied]

AppendFeaturesRow(fc, row, date) ==
  LET key == row[3]
      cust_out == row[5]
      i == FirstMatch(fc, "Key_Auto", key)
  IN  IF i = 0 THEN fc
      ELSE [fc EXCEPT ![i] = [@ EXCEPT !.Cust_Out_Auto = cust_out,
                                       !.Last_Updated_Auto = date]]

RECURSIVE AppendFeaturesLoop(_, _, _, _, _)
AppendFeaturesLoop(fc, rows, n, date, fail_at) ==
  IF n > Len(rows) THEN [raised |-> FALSE, fc |-> fc]
  ELSE IF fail_at = 2 + n THEN [raised |-> TRUE, fc |-> fc]
  ELSE AppendFeaturesLoop(AppendFeaturesRow(fc, rows[n], date), rows, n + 1,
                          date, fail_at)

append_features(fc, rows, date, fail_at) ==
  LET cust_out_field == "Cust_Out_Auto"
      date_field == "Last_Updated_Auto"
      reset_out == CalculateField(fc, cust_out_field, Sentinel)
      reset_date == CalculateField(reset_out, date_field, NoneVal)
  IN  IF fail_at = 1 THEN [raised |-> TRUE, fc |-> fc]
      ELSE IF fail_at = 2 THEN [raised |-> TRUE, fc |-> reset_out]
      ELSE AppendFeaturesLoop(reset_date, rows, 1, date, fail_at)

\* rows.keys(): the keys of the dict in the order the dict yields them.
RECURSIVE DictKeys(_)
DictKeys(keyset) ==
  IF keyset = {} THEN <<>>
  ELSE LET k == CHOOSE x \in keyset : TRUE
       IN <<k>> \o DictKeys(keyset \ {k})

AppendLocalitiesKey(fc, dict_key, cust_out, date) ==
  LET i == FirstMatch(fc, "Loc_Name_Auto", dict_key)
  IN  IF i = 0 THEN fc
      ELSE [fc EXCEPT ![i] =
              [@ EXCEPT !.Cust_Out_Auto = cust_out,
                        !.Last_Updated_Auto = date,
                        !.Cust_Out_Human_Readable =
                           IF cust_out = Sentinel THEN 0 ELSE cust_out]]

RECURSIVE AppendLocalitiesLoop(_, _, _, _, _, _)
AppendLocalitiesLoop(fc, rows, keys, n, date, fail_at) ==
  IF n > Len(keys) THEN [raised |-> FALSE, fc |-> fc]
  ELSE IF fail_at = 2 + n THEN [raised |-> TRUE, fc |-> fc]
  ELSE AppendLocalitiesLoop(
         AppendLocalitiesKey(fc, keys[n], rows[keys[n]], date),
         rows, keys, n + 1, date, fail_at)

append_localities(fc, rows, date, fail_at) ==
  LET cust_out_field == "Cust_Out_Auto"
      date_field == "Last_Updated_Auto"
      reset_out == CalculateField(fc, cust_out_field, Sentinel)
      reset_date == CalculateField(reset_out, date_field, NoneVal)
  IN  IF fail_at = 1 THEN [raised |-> TRUE, fc |-> fc]
      ELSE IF fail_at = 2 THEN [raised |-> TRUE, fc |-> reset_out]
      ELSE AppendLocalitiesLoop(reset_date, rows, DictKeys(DOMAIN rows), 1,
                                date, fail_at)

\* Mutant of DeltaSelected: the cursor has no where clause.
DeltaSelectedAll(fc) == [i \in DOMAIN fc |-> i]

\* The rows the cursor of calc_delta selects: NOT Cust_Out_Auto = -9999.
DeltaSelected(fc) ==
  SelectSeq([i \in DOMAIN fc |-> i],
            LAMBDA i : fc[i].Cust_Out_Auto # Sentinel)

\* row[0] - row[1] raises TypeError when the last report is None.
RECURSIVE CalcDeltaLoop(_, _, _)
CalcDeltaLoop(fc, sel, n) ==
  IF n > Len(sel) THEN [raised |-> FALSE, fc |-> fc]
  ELSE LET i == sel[n] IN
       IF fc[i].Cust_Out_Last_Report = NoneVal
         THEN [raised |-> TRUE, fc |-> fc]
       ELSE CalcDeltaLoop(
              [fc EXCEPT ![i].Delta_Out_Current_Last =
                 fc[i].Cust_Out_Auto - fc[i].Cust_Out_Last_Report],
              sel, n + 1)

calc_delta(fc, fail_at) ==
  LET delta == "Delta_Out_Current_Last"
      zeroed == CalculateField(fc, delta, 0)
  IN  IF fail_at = 1 THEN [raised |-> TRUE, fc |-> fc]
      ELSE IF fail_at = 2 THEN [raised |-> TRUE, fc |-> zeroed]
      ELSE CalcDeltaLoop(zeroed, DeltaSelected(zeroed), 1)

\* add_time_series / add_time_series_long: one inserted row per row of
\* copy_from; the n-th insert raises when fail_at = n.
RECURSIVE InsertLoop(_, _, _, _)
InsertLoop(copy_from, copy_to, n, fail_at) ==
  IF n > Len(copy_from) THEN [raised |-> FALSE, fc |-> copy_to]
  ELSE IF fail_at = n THEN [raised |-> TRUE, fc |-> copy_to]
  ELSE InsertLoop(copy_from, Append(copy_to, copy_from[n]), n + 1, fail_at)

add_time_series(copy_from, copy_to, fail_at) ==
  InsertLoop(copy_from, copy_to, 1, fail_at)

add_time_series_long(copy_from, copy_to, fail_at) ==
  InsertLoop(copy_from, copy_to, 1, fail_at)

\* --------------------------------------------------------- URL resolution
\* What one probe meets: a 200 answer, another answer urlopen returns, an
\* HTTP error status (urllib2.HTTPError), or no HTTP answer at all
\* (urllib2.URLError and the like).
Responses == {"200", "204", "HTTPError", "URLError"}

\* Mutant of test_url: the HTTPError is not caught.
test_url_uncaught(response) ==
  CASE response = "200" -> [raised |-> FALSE, code |-> 200]
    [] response = "204" -> [raised |-> FALSE, code |-> 204]
    [] OTHER -> [raised |-> TRUE, code |-> 0]

test_url(response) ==
  CASE response = "200" -> [raised |-> FALSE, code |-> 200]
    [] response = "204" -> [raised |-> FALSE, code |-> 204]
    [] response = "HTTPError" -> [raised |-> FALSE, code |-> 404]
    [] OTHER -> [raised |-> TRUE, code |-> 0]

\* Local state of one call of get_current_provider_url.  at is "idle",
\* "loop" (head of the for loop), "tail" (after the loop), "returned" or
\* "raised"; idx is the position of the loop in date_strings; probed lists
\* the URLs handed to test_url and met is what the last probe met; value is
\* the value returned (<<>> is None).
ResolverIdle ==
  [at |-> "idle", prov |-> "", date_strings |-> <<>>, idx |-> 0,
   url_string |-> <<>>, url_obtained |-> FALSE, probed |-> <<>>,
   met |-> "", value |-> <<>>]

ResolverCall(prov, minute) ==
  [at |-> "loop", prov |-> prov, date_strings |-> build_date_strings(minute),
   idx |-> 1, url_string |-> <<>>, url_obtained |-> FALSE, probed |-> <<>>,
   met |-> "", value |-> <<>>]

\* Mutant of ResolverLoop: no break after the 200.
ResolverLoopNoBreak(r, response) ==
  IF r.idx > Len(r.date_strings) THEN [r EXCEPT !.at = "tail"]
  ELSE LET url_string == build_url(r.prov, r.date_strings[r.idx])
           t == test_url(response)
           r1 == [r EXCEPT !.url_string = url_string,
                           !.probed = Append(r.probed, url_string),
                           !.met = response]
       IN  IF t.raised THEN [r1 EXCEPT !.at = "raised"]
           ELSE IF t.code = 200
             THEN [r1 EXCEPT !.url_obtained = TRUE, !.idx = r.idx + 1]
           ELSE [r1 EXCEPT !.idx = r.idx + 1]

\* One pass of the loop body, or the loop's end.
ResolverLoop(r, response) ==
  IF r.idx > Len(r.date_strings) THEN [r EXCEPT !.at = "tail"]
  ELSE LET url_string == build_url(r.prov, r.date_strings[r.idx])
           t == test_url(response)
           r1 == [r EXCEPT !.url_string = url_string,
                           !.probed = Append(r.probed, url_string),
                           !.met = response]
       IN  IF t.raised THEN [r1 EXCEPT !.at = "raised"]
           ELSE IF t.code = 200
             THEN [r1 EXCEPT !.url_obtained = TRUE, !.at = "tail"]
           ELSE [r1 EXCEPT !.idx = r.idx + 1]

ResolverTail(r) ==
  IF r.url_obtained THEN [r EXCEPT !.at = "returned", !.value = r.url_string]
  ELSE [r EXCEPT !.at = "returned", !.value = <<>>]

\* The whole call, against a web that answers the n-th probe with web[n].
RECURSIVE ResolverRun(_, _)
ResolverRun(r, web) ==
  IF r.at = "loop"
    THEN ResolverRun(ResolverLoop(r, IF r.idx \in DOMAIN web
                                       THEN web[r.idx] ELSE "HTTPError"), web)
  ELSE IF r.at = "tail" THEN ResolverTail(r)
  ELSE r

get_current_provider_url(prov, minute, web) ==
  ResolverRun(ResolverCall(prov, minute), web)

\* ------------------------------------------------------------ the inputs
LocAb == <<"A", "b">>
LocAqb == <<"A", "'", "b">>
LocCd == <<"C", " ", "d">>
LocB == <<"B">>
CoopE == <<"E">>

Area(name, served, out) ==
  [area_name |-> name, cust_s |-> served, cust_a |-> [val |-> out]]

Payload(regions) ==
  [fetch |-> "ok",
   json |-> [file_data |-> [areas |-> << [areas |-> regions] >>]]]

\* What the DOM, AEP and co-op URLs may answer in a run of main().
DomResponses ==
  << Payload(<< [area_name |-> "r1",
                 areas |-> <<Area(LocAb, 9, 2), Area(LocAqb, 9, 1)>>] >>),
     Payload(<< [area_name |-> "r1", areas |-> <<Area(LocCd, 9, 3)>>] >>),
     Payload(<< [area_name |-> "r1",
                 areas |-> <<Area(LocAb, 9, 2),
                             [area_name |-> LocCd, cust_s |-> 9]>>] >>),
     [fetch |-> "URLError"] >>

AepResponses ==
  << Payload(<< [area_name |-> "r1", areas |-> <<Area(LocB, 9, 1)>>] >>),
     Payload(<< [areas |-> <<Area(LocB, 9, 1)>>] >>) >>

CoopResponses ==
  << [fetch |-> "ok", lines |-> 2, data_ok |-> TRUE, coop_ok |-> TRUE,
      coop_data |-> << [company |-> CoopE,
                        county |-> << [name |-> LocCd, outage |-> 2],
                                      [name |-> LocAb, outage |-> 1],
                                      [name |-> LocB] >>] >>],
     [fetch |-> "ok", lines |-> 2, data_ok |-> TRUE, coop_ok |-> TRUE,
      coop_data |-> << [company |-> CoopE] >>],
     [fetch |-> "ok", lines |-> 2, data_ok |-> TRUE, coop_ok |-> FALSE,
      coop_data |-> <<>>] >>

\* What the probes of one call of get_current_provider_url may meet.
MainWebs ==
  << [n \in 1..3 |-> IF n = 3 THEN "200" ELSE "HTTPError"],
     [n \in 1..2 |-> IF n = 2 THEN "URLError" ELSE "204"],
     <<>> >>

MainMinute == 32

\* The feature classes as a first run finds them: nothing reported yet.
ProvFeature(key) ==
  [Key_Auto |-> key, Cust_Out_Auto |-> Sentinel,
   Last_Updated_Auto |-> NoneVal, Cust_Out_Last_Report |-> Sentinel,
   Delta_Out_Current_Last |-> 0]

LocFeature(key) ==
  [Loc_Name_Auto |-> key, Cust_Out_Auto |-> Sentinel,
   Last_Updated_Auto |-> NoneVal, Cust_Out_Last_Report |-> Sentinel,
   Delta_Out_Current_Last |-> 0, Cust_Out_Human_Readable |-> 0]

InitFc ==
  << ProvFeature(create_prog_key(provider_site_dom, LocAb)),
     ProvFeature(create_prog_key(provider_site_aep, LocB)),
     ProvFeature(create_prog_key(CoopE, LocCd)) >>

InitLocFc ==
  << LocFeature(create_prog_key(<<>>, LocAb)),
     LocFeature(create_prog_key(<<>>, LocCd)),
     LocFeature(create_prog_key(<<>>, LocB)) >>

InitRegionalFc ==
  << LocFeature(create_prog_key(<<>>, LocAb)),
     LocFeature(create_prog_key(<<>>, LocB)),
     LocFeature(create_prog_key(<<>>, LocAb)) >>

\* ------------------------------------------------------------- the state
VARIABLES
  pc,                  \* position of main(), or of the function under test
  run,                 \* number of the current run; stands for its timestamps
  faults,              \* injected failures of logging, file and store calls
  resolver,            \* the running call of get_current_provider_url
  dom_url, aep_url,    \* locals of main(); <<>> is None
  dom_rows, aep_rows, coop_rows,
  loc_dict,            \* [bound, d]: the local is bound only once assigned
  csv_file,            \* [schema, rows]: CSV_Output.csv
  fc, loc_fc, regional_fc,
  time_series_fc, time_series_fc_long,
  did,                 \* scrapes and store operations that returned
  faulted,             \* store operations of this run that a store refused
  at_start,            \* the five stores as the run found them
  fn_in, fn_out        \* argument and result of a function applied alone

vars ==
  <<pc, run, faults, resolver, dom_url, aep_url, dom_rows, aep_rows,
    coop_rows, loc_dict, csv_file, fc, loc_fc, regional_fc, time_series_fc,
    time_series_fc_long, did, faulted, at_start, fn_in, fn_out>>

stores == <<fc, loc_fc, regional_fc, time_series_fc, time_series_fc_long>>
locals == <<dom_url, aep_url, dom_rows, aep_rows, coop_rows, loc_dict>>
ghosts == <<did, faulted, at_start>>
fn == <<fn_in, fn_out>>

Unbound == [bound |-> FALSE, d |-> <<>>]

Init ==
  /\ pc = "log_urls"
  /\ run = 1
  /\ faults = 0
  /\ resolver = ResolverIdle
  /\ dom_url = <<>> /\ aep_url = <<>>
  /\ dom_rows = <<>> /\ aep_rows = <<>> /\ coop_rows = <<>>
  /\ loc_dict = Unbound
  /\ csv_file = [schema |-> FALSE, rows |-> <<>>]
  /\ fc = InitFc
  /\ loc_fc = InitLocFc
  /\ regional_fc = InitRegionalFc
  /\ time_series_fc = <<>>
  /\ time_series_fc_long = <<>>
  /\ did = {}
  /\ faulted = {}
  /\ at_start = <<InitFc, InitLocFc, InitRegionalFc, <<>>, <<>>>>
  /\ fn_in = <<>>
  /\ fn_out = <<>>

\* The calls that may be made to fail: 0 is no failure.
FailAt(total) == {0} \cup (IF faults < MaxFaults THEN 1..total ELSE {})

Fault(fail_at) == faults' = IF fail_at = 0 THEN faults ELSE faults + 1

\* ------------------------------------------------------------- main()
\* Mutant of ScrapeExcept: the handler prints and the run goes on.
ScrapeExceptGoesOn == "csv"

\* Where the except clauses of lines 79-84 and 93-97 lead: sys.exit().
UrlExcept == "exit"
ScrapeExcept == "exit"

\* h.log(...) stands outside every try statement.  The module does not
\* define h: the call returns when the environment provides it and raises
\* otherwise.
Log(here, next) ==
  /\ pc = here
  /\ \E fail_at \in FailAt(1) :
       /\ pc' = IF fail_at = 0 THEN next ELSE "uncaught"
       /\ Fault(fail_at)
  /\ UNCHANGED <<run, resolver, locals, csv_file, stores, ghosts, fn>>

LogUrls == Log("log_urls", "get_dom")

GetDomUrl ==
  /\ pc = "get_dom"
  /\ \E w \in DOMAIN MainWebs :
       LET r == get_current_provider_url(DOM, MainMinute, MainWebs[w])
       IN  /\ pc' = IF r.at = "raised" THEN UrlExcept ELSE "get_aep"
           /\ dom_url' = IF r.at = "raised" THEN dom_url ELSE r.value
  /\ UNCHANGED <<run, faults, resolver, aep_url, dom_rows, aep_rows,
                 coop_rows, loc_dict, csv_file, stores, ghosts, fn>>

GetAepUrl ==
  /\ pc = "get_aep"
  /\ \E w \in DOMAIN MainWebs :
       LET r == get_current_provider_url(AEP, MainMinute, MainWebs[w])
       IN  /\ pc' = IF r.at = "raised" THEN UrlExcept ELSE "print_urls"
           /\ aep_url' = IF r.at = "raised" THEN aep_url ELSE r.value
  /\ UNCHANGED <<run, faults, resolver, dom_url, dom_rows, aep_rows,
                 coop_rows, loc_dict, csv_file, stores, ghosts, fn>>

\* print dom_url + "\n" + aep_url raises TypeError when either is None.
PrintUrls ==
  /\ pc = "print_urls"
  /\ pc' = IF dom_url = <<>> \/ aep_url = <<>> THEN UrlExcept
             ELSE "log_scrape"
  /\ UNCHANGED <<run, faults, resolver, locals, csv_file, stores, ghosts, fn>>

LogScrape == Log("log_scrape", "scrape_dom")

ScrapeDom ==
  /\ pc = "scrape_dom"
  /\ \E i \in DOMAIN DomResponses :
       LET r == scrape_dom_data(dom_url, DomResponses[i], run)
       IN  /\ pc' = IF r.raised THEN ScrapeExcept ELSE "scrape_aep"
           /\ dom_rows' = IF r.raised THEN dom_rows ELSE r.rows
           /\ did' = IF r.raised THEN did ELSE did \cup {"scrape_dom"}
  /\ UNCHANGED <<run, faults, resolver, dom_url, aep_url, aep_rows,
                 coop_rows, loc_dict, csv_file, stores, faulted, at_start, fn>>

ScrapeAep ==
  /\ pc = "scrape_aep"
  /\ \E i \in DOMAIN AepResponses :
       LET r == scrape_aep_data(aep_url, AepResponses[i], run)
       IN  /\ pc' = IF r.raised THEN ScrapeExcept ELSE "scrape_coop"
           /\ aep_rows' = IF r.raised THEN aep_rows ELSE r.rows
           /\ did' = IF r.raised THEN did ELSE did \cup {"scrape_aep"}
  /\ UNCHANGED <<run, faults, resolver, dom_url, aep_url, dom_rows,
                 coop_rows, loc_dict, csv_file, stores, faulted, at_start, fn>>

ScrapeCoop ==
  /\ pc = "scrape_coop"
  /\ \E i \in DOMAIN CoopResponses :
       LET r == scrape_coop_data(CoopResponses[i], run)
       IN  /\ pc' = IF r.raised THEN ScrapeExcept ELSE "csv"
           /\ coop_rows' = IF r.raised THEN coop_rows ELSE r.rows
           /\ did' = IF r.raised THEN did ELSE did \cup {"scrape_coop"}
  /\ UNCHANGED <<run, faults, resolver, dom_url, aep_url, dom_rows,
                 aep_rows, loc_dict, csv_file, stores, faulted, at_start, fn>>

all_rows == dom_rows \o aep_rows \o coop_rows

\* create_csv_schema then append_csv.  Call 1 is the open of the first,
\* call 2 the open of the second, call 2 + n the writerow of row n.  An
\* open raises IOError; a writerow raises IOError or another error (the
\* Python 2 csv writer raises UnicodeEncodeError on a non-ASCII name).
CsvNext(fail_at, kind) ==
  IF fail_at = 0 \/ kind = "IOError" THEN "prov_copy" ELSE "uncaught"

WriteCsv ==
  /\ pc = "csv"
  /\ \E fail_at \in FailAt(2 + Len(all_rows)), kind \in {"IOError", "Other"} :
       /\ fail_at <= 2 => kind = "IOError"
       /\ pc' = CsvNext(fail_at, kind)
       /\ csv_file' =
            IF fail_at = 1 THEN csv_file
            ELSE IF fail_at = 2 THEN [schema |-> TRUE, rows |-> <<>>]
            ELSE IF fail_at = 0 THEN [schema |-> TRUE, rows |-> all_rows]
            ELSE [schema |-> TRUE, rows |-> SubSeq(all_rows, 1, fail_at - 3)]
       /\ Fault(fail_at)
  /\ UNCHANGED <<run, resolver, locals, stores, ghosts, fn>>

\* Bookkeeping of one store operation op that ended with r = [raised, fc].
Track(op, r, fail_at) ==
  /\ did' = IF r.raised THEN did ELSE did \cup {op}
  /\ faulted' = IF fail_at = 0 THEN faulted ELSE faulted \cup {op}
  /\ Fault(fail_at)
  /\ UNCHANGED <<run, resolver, csv_file, at_start, fn,
                 dom_url, aep_url, dom_rows, aep_rows, coop_rows>>

\* Provider and locality feature class (lines 111-124)
ProvCopy ==
  /\ pc = "prov_copy"
  /\ \E fail_at \in FailAt(2) :
       LET r == copy_field(fc, fail_at)
       IN  /\ fc' = r.fc
           /\ pc' = IF r.raised THEN "loc_copy" ELSE "prov_append"
           /\ Track("prov_copy", r, fail_at)
  /\ UNCHANGED <<loc_dict, loc_fc, regional_fc, time_series_fc,
                 time_series_fc_long>>

ProvAppend ==
  /\ pc = "prov_append"
  /\ \E fail_at \in FailAt(2 + Len(all_rows)) :
       LET r == append_features(fc, all_rows, run, fail_at)
       IN  /\ fc' = r.fc
           /\ pc' = IF r.raised THEN "loc_copy" ELSE "prov_delta"
           /\ Track("prov_append", r, fail_at)
  /\ UNCHANGED <<loc_dict, loc_fc, regional_fc, time_series_fc,
                 time_series_fc_long>>

ProvDelta ==
  /\ pc = "prov_delta"
  /\ \E fail_at \in FailAt(2) :
       LET r == calc_delta(fc, fail_at)
       IN  /\ fc' = r.fc
           /\ pc' = "loc_copy"
           /\ Track("prov_delta", r, fail_at)
  /\ UNCHANGED <<loc_dict, loc_fc, regional_fc, time_series_fc,
                 time_series_fc_long>>

\* Locality feature class (lines 127-141)
LocCopy ==
  /\ pc = "loc_copy"
  /\ \E fail_at \in FailAt(2) :
       LET r == copy_field(loc_fc, fail_at)
       IN  /\ loc_fc' = r.fc
           /\ pc' = IF r.raised THEN "time_series" ELSE "loc_append"
           /\ Track("loc_copy", r, fail_at)
  /\ UNCHANGED <<loc_dict, fc, regional_fc, time_series_fc,
                 time_series_fc_long>>

\* loc_dict = dissolve_list(...) ; append_localities(loc_fc, loc_dict)
LocAppend ==
  /\ pc = "loc_append"
  /\ LET d == dissolve_list(all_rows) IN
       /\ loc_dict' = [bound |-> TRUE, d |-> d]
       /\ \E fail_at \in FailAt(2 + Cardinality(DOMAIN d)) :
            LET r == append_localities(loc_fc, d, run, fail_at)
            IN  /\ loc_fc' = r.fc
                /\ pc' = IF r.raised THEN "time_series" ELSE "loc_delta"
                /\ Track("loc_append", r, fail_at)
  /\ UNCHANGED <<fc, regional_fc, time_series_fc, time_series_fc_long>>

LocDelta ==
  /\ pc = "loc_delta"
  /\ \E fail_at \in FailAt(2) :
       LET r == calc_delta(loc_fc, fail_at)
       IN  /\ loc_fc' = r.fc
           /\ pc' = "time_series"
           /\ Track("loc_delta", r, fail_at)
  /\ UNCHANGED <<loc_dict, fc, regional_fc, time_series_fc,
                 time_series_fc_long>>

\* Time series tables (lines 146-157)
TimeSeries ==
  /\ pc = "time_series"
  /\ \E fail_at \in FailAt(Len(loc_fc)) :
       LET r == add_time_series(loc_fc, time_series_fc, fail_at)
       IN  /\ time_series_fc' = r.fc
           /\ pc' = "time_series_long"
           /\ Track("time_series", r, fail_at)
  /\ UNCHANGED <<loc_dict, fc, loc_fc, regional_fc, time_series_fc_long>>

TimeSeriesLong ==
  /\ pc = "time_series_long"
  /\ \E fail_at \in FailAt(Len(loc_fc)) :
       LET r == add_time_series_long(loc_fc, time_series_fc_long, fail_at)
       IN  /\ time_series_fc_long' = r.fc
           /\ pc' = "reg_copy"
           /\ Track("time_series_long", r, fail_at)
  /\ UNCHANGED <<loc_dict, fc, loc_fc, regional_fc, time_series_fc>>

\* Regional feature class (lines 160-174)
RegCopy ==
  /\ pc = "reg_copy"
  /\ \E fail_at \in FailAt(2) :
       LET r == copy_field(regional_fc, fail_at)
       IN  /\ regional_fc' = r.fc
           /\ pc' = IF r.raised THEN "done" ELSE "reg_append"
           /\ Track("reg_copy", r, fail_at)
  /\ UNCHANGED <<loc_dict, fc, loc_fc, time_series_fc, time_series_fc_long>>

\* append_localities(regional_fc, loc_dict): reading the local loc_dict
\* raises UnboundLocalError when line 134 never assigned it.
RegAppend ==
  /\ pc = "reg_append"
  /\ IF ~loc_dict.bound
       THEN /\ pc' = "done"
            /\ UNCHANGED <<regional_fc, faults, did, faulted, run, resolver,
                           csv_file, at_start, fn, dom_url, aep_url,
                           dom_rows, aep_rows, coop_rows>>
       ELSE \E fail_at \in FailAt(2 + Cardinality(DOMAIN loc_dict.d)) :
              LET r == append_localities(regional_fc, loc_dict.d, run,
                                         fail_at)
              IN  /\ regional_fc' = r.fc
                  /\ pc' = IF r.raised THEN "done" ELSE "reg_delta"
                  /\ Track("reg_append", r, fail_at)
  /\ UNCHANGED <<loc_dict, fc, loc_fc, time_series_fc, time_series_fc_long>>

RegDelta ==
  /\ pc = "reg_delta"
  /\ \E fail_at \in FailAt(2) :
       LET r == calc_delta(regional_fc, fail_at)
       IN  /\ regional_fc' = r.fc
           /\ pc' = "done"
           /\ Track("reg_delta", r, fail_at)
  /\ UNCHANGED <<loc_dict, fc, loc_fc, time_series_fc, time_series_fc_long>>

\* The scheduler starts the script again: a new process, the same stores.
NextRun ==
  /\ pc \in {"done", "exit", "uncaught"}
  /\ run < MaxRuns
  /\ pc' = "log_urls"
  /\ run' = run + 1
  /\ dom_url' = <<>> /\ aep_url' = <<>>
  /\ dom_rows' = <<>> /\ aep_rows' = <<>> /\ coop_rows' = <<>>
  /\ loc_dict' = Unbound
  /\ did' = {}
  /\ faulted' = {}
  /\ at_start' = stores
  /\ UNCHANGED <<faults, resolver, csv_file, stores, fn>>

Next ==
  \/ LogUrls \/ GetDomUrl \/ GetAepUrl \/ PrintUrls
  \/ LogScrape \/ ScrapeDom \/ ScrapeAep \/ ScrapeCoop
  \/ WriteCsv
  \/ ProvCopy \/ ProvAppend \/ ProvDelta
  \/ LocCopy \/ LocAppend \/ LocDelta
  \/ TimeSeries \/ TimeSeriesLong
  \/ RegCopy \/ RegAppend \/ RegDelta
  \/ NextRun

Spec == Init /\ [][Next]_vars

\* ------------------------------------------- functions applied on their own
\* main() at rest: what the variables of main() hold while one function is
\* applied to inputs drawn from a bounded set.
MainAtRest ==
  /\ run = 1
  /\ faults = 0
  /\ dom_url = <<>> /\ aep_url = <<>>
  /\ dom_rows = <<>> /\ aep_rows = <<>> /\ coop_rows = <<>>
  /\ loc_dict = Unbound
  /\ csv_file = [schema |-> FALSE, rows |-> <<>>]
  /\ fc = InitFc
  /\ loc_fc = InitLocFc
  /\ regional_fc = InitRegionalFc
  /\ time_series_fc = <<>>
  /\ time_series_fc_long = <<>>
  /\ did = {}
  /\ faulted = {}
  /\ at_start = <<InitFc, InitLocFc, InitRegionalFc, <<>>, <<>>>>

main_vars ==
  <<run, faults, locals, csv_file, stores, ghosts>>

\* get_current_provider_url(prov) at minute m of the hour, probe by probe.
InitResolve ==
  /\ pc = "call_resolver"
  /\ resolver = ResolverIdle
  /\ fn_in \in {<<prov, minute>> : prov \in {DOM, AEP}, minute \in 0..59}
  /\ fn_out = <<>>
  /\ MainAtRest

ResolverEnter ==
  /\ pc = "call_resolver"
  /\ resolver' = ResolverCall(fn_in[1], fn_in[2])
  /\ pc' = "in_resolver"
  /\ UNCHANGED <<main_vars, fn>>

ResolverStep ==
  /\ pc = "in_resolver"
  /\ resolver.at = "loop"
  /\ \E response \in Responses : resolver' = ResolverLoop(resolver, response)
  /\ UNCHANGED <<pc, main_vars, fn>>

ResolverReturn ==
  /\ pc = "in_resolver"
  /\ resolver.at = "tail"
  /\ resolver' = ResolverTail(resolver)
  /\ UNCHANGED <<pc, main_vars, fn>>

NextResolve == ResolverEnter \/ ResolverStep \/ ResolverReturn

SpecResolve == InitResolve /\ [][NextResolve]_vars

\* scrape_coop_data on every payload of at most MaxCompanies entries with
\* at most MaxCounties counties each.
MaxCompanies == 2
MaxCounties == 2

CountyEntries ==
  { [name |-> LocAb, outage |-> 1], [name |-> LocB, outage |-> 2],
    [name |-> LocAb], [outage |-> 1] }

CountyLists == UNION {[1..n -> CountyEntries] : n \in 0..MaxCounties}

CompanyEntries ==
  {[company |-> CoopE, county |-> cs] : cs \in CountyLists}
    \cup {[company |-> CoopE]}
    \cup {[county |-> <<[name |-> LocB, outage |-> 2]>>]}

CoopInputs ==
  {[fetch |-> "ok", lines |-> 2, data_ok |-> TRUE, coop_ok |-> TRUE,
    coop_data |-> vals] :
     vals \in UNION {[1..n -> CompanyEntries] : n \in 0..MaxCompanies}}

InitCoop ==
  /\ pc = "call_coop"
  /\ resolver = ResolverIdle
  /\ fn_in \in CoopInputs
  /\ fn_out = <<>>
  /\ MainAtRest

CoopApply ==
  /\ pc = "call_coop"
  /\ fn_out' = scrape_coop_data(fn_in, 1)
  /\ pc' = "coop_returned"
  /\ UNCHANGED <<main_vars, resolver, fn_in>>

SpecCoop == InitCoop /\ [][CoopApply]_vars

\* dissolve_list on every list of at most MaxRows rows.
MaxRows == 3

DissolveRows ==
  {<<locality, provider, create_prog_key(provider, locality), 9, out, 1>> :
     locality \in {LocAb, LocAqb, LocB},
     provider \in {provider_site_dom, CoopE},
     out \in {1, 2}}

InitDissolve ==
  /\ pc = "call_dissolve"
  /\ resolver = ResolverIdle
  /\ fn_in \in UNION {[1..n -> DissolveRows] : n \in 0..MaxRows}
  /\ fn_out = <<>>
  /\ MainAtRest

DissolveApply ==
  /\ pc = "call_dissolve"
  /\ fn_out' = dissolve_list(fn_in)
  /\ pc' = "dissolve_returned"
  /\ UNCHANGED <<main_vars, resolver, fn_in>>

SpecDissolve == InitDissolve /\ [][DissolveApply]_vars

\* The locality-only join, end to end: two scraped localities of at most
\* MaxNameLen characters are dissolved, and the aggregates are appended to a
\* locality store whose keys were normalized by create_prog_key at load time.
MaxNameLen == 2

NameChars == {"A", "a", "'", " ", ".", "-", "/"}

Names == UNION {[1..n -> NameChars] : n \in 1..MaxNameLen}

InitKey ==
  /\ pc = "call_join"
  /\ resolver = ResolverIdle
  /\ fn_in \in Names \X Names
  /\ fn_out = <<>>
  /\ MainAtRest

KeyApply ==
  /\ pc = "call_join"
  /\ LET rows == [n \in 1..2 |->
                   <<fn_in[n], CoopE, create_prog_key(CoopE, fn_in[n]), 0, n,
                     1>>]
         store == [n \in 1..2 |-> LocFeature(create_prog_key(<<>>, fn_in[n]))]
         d == dissolve_list(rows)
     IN  fn_out' = [loc_dict |-> d,
                    fc |-> append_localities(store, d, 1, 0).fc]
  /\ pc' = "join_returned"
  /\ UNCHANGED <<main_vars, resolver, fn_in>>

SpecKey == InitKey /\ [][KeyApply]_vars

\* ================================================================ claims
Reconciliations ==
  { {"prov_copy", "prov_append", "prov_delta"},
    {"loc_copy", "loc_append", "loc_delta"},
    {"time_series"},
    {"time_series_long"},
    {"reg_copy", "reg_append", "reg_delta"} }

Scrapes == {"scrape_dom", "scrape_aep", "scrape_coop"}

\* C1: the reconciliations of the stores are independent units of failure:
\* at the end of a run, every store none of whose own operations was refused
\* has carried out all of its steps, whatever failed for the other stores.
C1_IndependentUnits ==
  pc = "done" =>
    \A B \in Reconciliations : (B \cap faulted = {}) => B \subseteq did

\* C2: a run writes a store only after both URLs were resolved and the three
\* scrapes returned; a run that ends in sys.exit() has written no store.
C2_NoStoreWrittenBeforeScrapes ==
  /\ pc = "exit" => stores = at_start
  /\ stores # at_start =>
       /\ dom_url # <<>> /\ aep_url # <<>>
       /\ Scrapes \subseteq did

C2_Witness ==
  /\ pc = "exit"
  /\ run = 2
  /\ "scrape_dom" \in did /\ "scrape_coop" \notin did
  /\ fc # InitFc
  /\ stores = at_start

\* The fresh records of a store as a sequence of <<join key, customers out>>.
ProvFresh == [n \in DOMAIN all_rows |-> <<all_rows[n][3], all_rows[n][5]>>]

DictFresh(d) ==
  LET ks == DictKeys(DOMAIN d) IN [n \in DOMAIN ks |-> <<ks[n], d[ks[n]]>>]

\* The statement of C3 for one store.
C3_Statement(store, key_field, fresh) ==
  \A i \in DOMAIN store :
    LET e == store[i] IN
      /\ \A n \in DOMAIN fresh :
           fresh[n][1] = e[key_field] =>
             /\ e.Cust_Out_Auto = fresh[n][2]
             /\ e.Last_Updated_Auto # NoneVal
             /\ e.Delta_Out_Current_Last =
                  e.Cust_Out_Auto - e.Cust_Out_Last_Report
      /\ (\A n \in DOMAIN fresh : fresh[n][1] # e[key_field]) =>
             /\ e.Cust_Out_Auto = Sentinel
             /\ e.Last_Updated_Auto = NoneVal
             /\ e.Delta_Out_Current_Last = 0

\* C3 as claimed: after a pass without error every entity agrees with EVERY
\* fresh record of its key, and is at the sentinel when no record has its key.
C3_EveryMatchingRecord ==
  /\ {"prov_copy", "prov_append", "prov_delta"} \subseteq did =>
       C3_Statement(fc, "Key_Auto", ProvFresh)
  /\ {"loc_copy", "loc_append", "loc_delta"} \subseteq did =>
       C3_Statement(loc_fc, "Loc_Name_Auto", DictFresh(loc_dict.d))
  /\ {"reg_copy", "reg_append", "reg_delta"} \subseteq did =>
       C3_Statement(regional_fc, "Loc_Name_Auto", DictFresh(loc_dict.d))

\* The amended statement for one store: the entity that is first in cursor
\* order among those of its key takes the value of the LAST fresh record of
\* that key; every other entity is at the sentinel.
C3_AmendedStatement(store, key_field, fresh, date) ==
  \A i \in DOMAIN store :
    LET e == store[i]
        hits == {n \in DOMAIN fresh : fresh[n][1] = e[key_field]}
        first == \A j \in DOMAIN store :
                    store[j][key_field] = e[key_field] => i <= j
    IN  IF hits # {} /\ first
        THEN LET last == CHOOSE n \in hits : \A m \in hits : m <= n IN
               /\ e.Cust_Out_Auto = fresh[last][2]
               /\ e.Last_Updated_Auto = date
               /\ e.Last_Updated_Auto # NoneVal
               /\ e.Delta_Out_Current_Last =
                    e.Cust_Out_Auto - e.Cust_Out_Last_Report
        ELSE /\ e.Cust_Out_Auto = Sentinel
             /\ e.Last_Updated_Auto = NoneVal
             /\ e.Delta_Out_Current_Last = 0

\* C3 (amended): after a pass without error, the first entity of each key
\* holds the value of the last fresh record with that key, is stamped and has
\* delta = current - last report; every other entity is at -9999 / null / 0.
C3_LastRecordFirstEntity ==
  /\ {"prov_copy", "prov_append", "prov_delta"} \subseteq did =>
       C3_AmendedStatement(fc, "Key_Auto", ProvFresh, run)
  /\ {"loc_copy", "loc_append", "loc_delta"} \subseteq did =>
       C3_AmendedStatement(loc_fc, "Loc_Name_Auto", DictFresh(loc_dict.d),
                           run)
  /\ {"reg_copy", "reg_append", "reg_delta"} \subseteq did =>
       C3_AmendedStatement(regional_fc, "Loc_Name_Auto",
                           DictFresh(loc_dict.d), run)

\* Two DOM records share the key of fc[1]; the regional store has two
\* entities of one key; the run is the second, so deltas are real.
C3_Witness ==
  /\ pc = "done"
  /\ run = 2
  /\ UNION Reconciliations \subseteq did
  /\ Len(dom_rows) = 2
  /\ dom_rows[1][3] = dom_rows[2][3]
  /\ fc[1].Cust_Out_Auto = dom_rows[2][5]
  /\ fc[1].Cust_Out_Auto # dom_rows[1][5]
  /\ fc[1].Delta_Out_Current_Last # 0
  /\ fc[3].Cust_Out_Auto = Sentinel
  /\ regional_fc[1].Cust_Out_Auto # Sentinel
  /\ regional_fc[3].Cust_Out_Auto = Sentinel

\* C4: when no candidate answers 200 the resolution fails with an error: it
\* never returns to its caller without a URL.
C4_ExhaustionRaises ==
  resolver.at = "returned" => resolver.url_obtained /\ resolver.value # <<>>

\* Candidates are probed in the generator's order, one probe each.
ProbedInOrder ==
  /\ Len(resolver.probed) <= Len(resolver.date_strings)
  /\ \A k \in DOMAIN resolver.probed :
       resolver.probed[k] = build_url(resolver.prov, resolver.date_strings[k])
  /\ \A j, k \in DOMAIN resolver.probed :
       j # k => resolver.probed[j] # resolver.probed[k]

UntriedRemain == Len(resolver.probed) < Len(resolver.date_strings)

\* C5 as claimed: every unsuccessful probe, a non-200 status or a network
\* error alike, sends the resolver on to the next candidate.
C5_EveryFailureMovesOn ==
  /\ ProbedInOrder
  /\ (resolver.met \in {"204", "HTTPError", "URLError"} /\ UntriedRemain) =>
       /\ resolver.at = "loop"
       /\ resolver.idx = Len(resolver.probed) + 1

\* C5 (amended): a probe answered with a status other than 200 sends the
\* resolver on to the next candidate, no candidate is probed twice, and such
\* a probe never ends the resolution while candidates remain; a probe that
\* ends in a network error ends the resolution with that error.
C5_StatusMovesOnNetworkErrorRaises ==
  /\ ProbedInOrder
  /\ (resolver.met \in {"204", "HTTPError"} /\ UntriedRemain) =>
       /\ resolver.at = "loop"
       /\ resolver.idx = Len(resolver.probed) + 1
  /\ resolver.met = "URLError" <=> resolver.at = "raised"

C5_Witness ==
  /\ resolver.at = "raised"
  /\ resolver.met = "URLError"
  /\ Len(resolver.probed) = 3
  /\ UntriedRemain

C6_State ==
  /\ ProbedInOrder
  /\ resolver.met = "200" <=> resolver.url_obtained
  /\ resolver.url_obtained =>
       /\ resolver.at \in {"tail", "returned"}
       /\ resolver.url_string = resolver.probed[Len(resolver.probed)]
  /\ (resolver.at = "returned" /\ resolver.url_obtained) =>
       resolver.value = resolver.probed[Len(resolver.probed)]

C6_Step ==
  /\ Len(resolver'.probed) <= Len(resolver.probed) + 1
  /\ (resolver.met = "200" \/ resolver.at \in {"tail", "returned", "raised"})
       => resolver'.probed = resolver.probed

\* C6: candidates are probed in the generator's order; the first 200 ends the
\* probing and its URL is the value returned; each step adds at most one
\* probe and there is never more than one probe per candidate.
C6_FirstSuccessStops == []C6_State /\ [][C6_Step]_vars

C6_Witness ==
  /\ resolver.at = "returned"
  /\ Len(resolver.probed) = 3
  /\ resolver.value = build_url(resolver.prov, resolver.date_strings[3])

\* The records C7 expects: one per well-formed county of every entry that
\* names its company, in payload order.
WellFormedCounty(county) == HasKeys(county, {"name", "outage"})

RECURSIVE ExpectedCountyRows(_, _, _)
ExpectedCountyRows(provider, counties, j) ==
  IF j > Len(counties) THEN <<>>
  ELSE (IF WellFormedCounty(counties[j])
          THEN << <<counties[j].name, provider,
                    create_prog_key(provider, counties[j].name), 0,
                    counties[j].outage, 1>> >>
          ELSE <<>>)
       \o ExpectedCountyRows(provider, counties, j + 1)

RECURSIVE ExpectedCoopRows(_, _)
ExpectedCoopRows(vals, i) ==
  IF i > Len(vals) THEN <<>>
  ELSE (IF HasKeys(vals[i], {"company", "county"})
          THEN ExpectedCountyRows(vals[i].company, vals[i].county, 1)
          ELSE <<>>)
       \o ExpectedCoopRows(vals, i + 1)

\* C7: on a payload whose two lines decode, scrape_coop_data does not fail and
\* returns exactly one record per well-formed county entry.
C7_EveryWellFormedCounty ==
  pc = "coop_returned" =>
    /\ ~fn_out.raised
    /\ fn_out.rows = ExpectedCoopRows(fn_in.coop_data, 1)

\* The normalized locality of a record: lower case, apostrophes removed.
NormLocality(row) ==
  SelectSeq([i \in DOMAIN row[1] |-> Lower(row[1][i])], LAMBDA c : c # "'")

RECURSIVE SumOut(_, _)
SumOut(in_list, indices) ==
  IF indices = {} THEN 0
  ELSE LET i == CHOOSE x \in indices : TRUE
       IN in_list[i][5] + SumOut(in_list, indices \ {i})

\* C8: dissolve_list has exactly one key per normalized locality of its
\* records, and each value is the sum of customersOut over the records of
\* that locality.
C8_DissolveSums ==
  pc = "dissolve_returned" =>
    /\ DOMAIN fn_out = {NormLocality(fn_in[i]) : i \in DOMAIN fn_in}
    /\ \A key \in DOMAIN fn_out :
         fn_out[key] =
           SumOut(fn_in, {i \in DOMAIN fn_in : NormLocality(fn_in[i]) = key})

C8_Witness ==
  /\ pc = "dissolve_returned"
  /\ Len(fn_in) = 3
  /\ fn_in[1][1] = LocAb /\ fn_in[2][1] = LocB /\ fn_in[3][1] = LocAqb
  /\ fn_in[1][2] # fn_in[3][2]
  /\ Cardinality(DOMAIN fn_out) = 2
  /\ fn_out[NormLocality(fn_in[1])] = fn_in[1][5] + fn_in[3][5]

\* C9: no error propagates past main(): every failure is caught at its phase
\* boundary, and a failed CSV write never stops the run.
C9_NothingPropagates == pc # "uncaught"

HumanReadableOk(store) ==
  \A i \in DOMAIN store :
    store[i].Cust_Out_Human_Readable =
      IF store[i].Cust_Out_Auto = Sentinel THEN 0 ELSE store[i].Cust_Out_Auto

\* C10: once append_localities has completed on a store, every entity's
\* human-readable field is its current outage with 0 for the sentinel.
C10_HumanReadableFollowsCurrent ==
  /\ "loc_append" \in did => HumanReadableOk(loc_fc)
  /\ "reg_append" \in did => HumanReadableOk(regional_fc)

\* KeyBuilder on a locality alone: lower case, then strip apostrophe, space,
\* period, hyphen and slash.
KeyBuilder(name) ==
  SelectSeq([i \in DOMAIN name |-> Lower(name[i])],
            LAMBDA c : c \notin {"'", " ", ".", "-", "/"})

\* C11: the key dissolve_list generates for a locality is the KeyBuilder
\* normalization of that locality, so every aggregate finds the entity whose
\* persisted key was normalized that way.
C11_DissolveKeyIsKeyBuilder ==
  pc = "join_returned" =>
    /\ DOMAIN fn_out.loc_dict = {KeyBuilder(fn_in[1]), KeyBuilder(fn_in[2])}
    /\ \A i \in DOMAIN fn_out.fc :
         FirstMatch(fn_out.fc, "Loc_Name_Auto",
                    fn_out.fc[i].Loc_Name_Auto) = i
           => fn_out.fc[i].Cust_Out_Auto # Sentinel

\* The minute buckets of offset o, and the two candidates generated for it.
Buckets(o) == {0 + o, 15 + o, 30 + o, 45 + o}

CandidatesOf(o) == {2 * o + 1, 2 * o + 2}

BucketIsLargestNotLater(m, o) ==
  \E v \in Buckets(o) :
    /\ v <= m
    /\ \A w \in Buckets(o) : w <= m => w <= v
    /\ \A k \in CandidatesOf(o) :
         resolver.date_strings[k][1] = <<v \div 10, v % 10>>

\* C12 as claimed: for every minute m and offset o in 0..14 the bucket of the
\* two candidates of o is the largest of {o, 15+o, 30+o, 45+o} that is <= m.
C12_BucketNeverLater ==
  resolver.at # "idle" =>
    /\ Len(resolver.date_strings) = 30
    /\ \A o \in 0..14 : BucketIsLargestNotLater(fn_in[2], o)

\* C12 (amended): for m >= o the bucket is the largest of {o, 15+o, 30+o,
\* 45+o} that is <= m; for m < o, where no such value exists, the bucket is
\* o itself, a minute later than the current one.
C12_BucketOrOffset ==
  resolver.at # "idle" =>
    /\ Len(resolver.date_strings) = 30
    /\ \A o \in 0..14 :
         IF fn_in[2] >= o THEN BucketIsLargestNotLater(fn_in[2], o)
         ELSE \A k \in CandidatesOf(o) :
                /\ resolver.date_strings[k][1] = <<o \div 10, o % 10>>
                /\ o > fn_in[2]

\* Minute 2: offsets 0 and 2 give the buckets 00 and 02, offset 3 gives 03,
\* a minute that has not come yet.
C12_Witness ==
  /\ resolver.at = "loop"
  /\ fn_in[2] = 2
  /\ resolver.date_strings[1][1] = <<0, 0>>
  /\ resolver.date_strings[5][1] = <<0, 2>>
  /\ resolver.date_strings[7][1] = <<0, 3>>
  /\ resolver.date_strings[8][1] = <<0, 3>>

RealDifference(store) ==
  \A i \in DOMAIN store :
    store[i].Cust_Out_Auto # Sentinel =>
      /\ store[i].Cust_Out_Last_Report # Sentinel
      /\ store[i].Delta_Out_Current_Last =
           store[i].Cust_Out_Auto - store[i].Cust_Out_Last_Report

\* C13: over any sequence of runs, once calc_delta has computed the deltas
\* of a store, no entity with a current outage has the sentinel -9999 as its
\* last report: its delta is the difference of two real counts.
C13_DeltaOfRealCounts ==
  /\ "prov_delta" \in did => RealDifference(fc)
  /\ "loc_delta" \in did => RealDifference(loc_fc)
  /\ "reg_delta" \in did => RealDifference(regional_fc)

ConsistentEntity(e) ==
  \/ /\ e.Cust_Out_Auto = Sentinel
     /\ e.Delta_Out_Current_Last = 0
  \/ /\ e.Cust_Out_Auto # Sentinel
     /\ e.Cust_Out_Last_Report # NoneVal
     /\ e.Delta_Out_Current_Last = e.Cust_Out_Auto - e.Cust_Out_Last_Report

\* C14: at the end of every run that reaches the reconciliation phase,
\* whichever store operations failed, every entity of the provider, locality
\* and regional stores is consistent: at the sentinel with delta 0, or with
\* delta = current outage - last report.
C14_ConsistentAtEndOfRun ==
  pc = "done" =>
    \A store \in {fc, loc_fc, regional_fc} :
      \A i \in DOMAIN store : ConsistentEntity(store[i])

====
